---- MODULE Spec2Model ----
(***************************************************************************)
(* PrimeBagCluster: a segmented Sieve of Eratosthenes, the PrimeTable that *)
(* assigns primes to values (with hole recycling and a one-ahead prefetch  *)
(* task), and the PrimeBag whose hash is the product of its members'       *)
(* primes.                                                                 *)
(***************************************************************************)
EXTENDS Integers, Sequences, FiniteSets, TLC

\* ------------------------------------------------------------------------
\* Bounds of the model
\* ------------------------------------------------------------------------
MaxIndex == 7      \* largest index handed to getPrimeNumber directly
MaxLen == 2        \* largest PrimeBag length the caller builds
MaxCalls == 6      \* number of calls the caller makes

Values == {"a", "b", "c"}
BagValues == {"a", "b"}      \* the values the bag scenarios use
Tables == {1, 2}
Bags == {1, 2, 3}
Cursors == {1, 2}

\* ------------------------------------------------------------------------
\* Reference arithmetic (independent of the sieve)
\* ------------------------------------------------------------------------
IsPrime(n) == n >= 2 /\ \A d \in 2..(n - 1) : n % d # 0

RefLimit == 64

\* the (i+1)-th prime of 2,3,5,7,11,...
NthPrimeRef(i) ==
    CHOOSE p \in 2..RefLimit :
        IsPrime(p) /\ Cardinality({q \in 2..(p - 1) : IsPrime(q)}) = i

Min2(x, y) == IF x <= y THEN x ELSE y

\* uint(sqrt(n))
ISqrt(n) == CHOOSE r \in 0..n : r * r <= n /\ (r + 1) * (r + 1) > n

\* ------------------------------------------------------------------------
\* SieveOfEratosthenes
\* ------------------------------------------------------------------------
\* the loop bound of countMultiplesInBitField: multiple <= max
MultipleInRangeOffByOne(multiple, max) == multiple < max

MultipleInRange(multiple, max) == multiple <= max

\* bitField is a function 0..(max-min) -> BOOLEAN; every multiple of prime
\* from prime^2 up to max that is >= min is marked composite.
countMultiplesInBitField(bitField, prime, min, max) ==
    LET square == prime * prime
    IN [i \in DOMAIN bitField |->
          IF /\ i + min >= square
             /\ MultipleInRange(i + min, max)
             /\ (i + min - square) % prime = 0
          THEN FALSE
          ELSE bitField[i]]

RECURSIVE GrowLimit(_, _)
\* while (sieveLimit <= min) sieveLimit *= 2;
GrowLimit(limit, min) ==
    IF limit <= min THEN GrowLimit(limit * 2, min) ELSE limit

RECURSIVE SieveKnown(_, _, _, _, _)
\* for (uint prime : primes) countMultiplesInBitField(...)
SieveKnown(bitField, ps, k, min, max) ==
    IF k > Len(ps) THEN bitField
    ELSE SieveKnown(countMultiplesInBitField(bitField, ps[k], min, max),
                    ps, k + 1, min, max)

RECURSIVE ScanBitField(_, _, _, _, _)
\* for (index ...) if (bitField[index]) { sieve its multiples; push_back }
ScanBitField(bitField, index, ps, min, max) ==
    IF index > max - min THEN ps
    ELSE IF bitField[index]
         THEN ScanBitField(
                 countMultiplesInBitField(bitField, index + min, min, max),
                 index + 1, Append(ps, index + min), min, max)
         ELSE ScanBitField(bitField, index + 1, ps, min, max)

\* one iteration of the outer while loop of sieve(): one segment
SieveSegment(s) ==
    LET min == s.highestTestedNum + 1
        limit == GrowLimit(s.sieveLimit, min)
        root == ISqrt(limit)
        max == Min2(limit, min + root)
        fresh == [i \in 0..(max - min) |-> TRUE]
        marked == SieveKnown(fresh, s.primes, 1, min, max)
    IN [primes |-> ScanBitField(marked, 0, s.primes, min, max),
        highestTestedNum |-> max,
        sieveLimit |-> limit]

RECURSIVE sieve(_, _)
\* while (primes.size() < numPrimes) { segment }
sieve(s, numPrimes) ==
    IF Len(s.primes) < numPrimes THEN sieve(SieveSegment(s), numPrimes)
    ELSE s

\* the sieve after getPrimeNumber(index); the value returned is
\* primes[index] (0-based), i.e. element index+1 of the TLA+ sequence
getPrimeNumber(s, index) == sieve(s, index + 1)

\* SieveOfEratosthenes(nullptr)
NewSieve == [primes |-> << >>, highestTestedNum |-> 1, sieveLimit |-> 1]

\* ------------------------------------------------------------------------
\* State
\* ------------------------------------------------------------------------
VARIABLES
    sieveOfEratosthenes,  \* per table: [primes, highestTestedNum, sieveLimit]
    primeMap,             \* per table: value -> prime (unordered_map)
    reversePrimeMap,      \* per table: prime -> value (unordered_map)
    primeHoles,           \* per table: max-ordered queue, largest first
    nextPrime,            \* per table: the std::future and its async task
    hash,                 \* per bag: the product of the members' primes
    length,               \* per bag: number of elements
    members,              \* per bag: values inserted minus values removed
    iter,                 \* per cursor: a PrimeBagIterator and its history
    answered,             \* per index: what getPrimeNumber returned, 0 if never
    last,                 \* the call that returned last, with its result
    calls                 \* number of calls the caller has made

vars == <<sieveOfEratosthenes, primeMap, reversePrimeMap, primeHoles,
          nextPrime, hash, length, members, iter, answered, last, calls>>

tableVars == <<sieveOfEratosthenes, primeMap, reversePrimeMap, primeHoles,
               nextPrime>>

bagVars == <<hash, length, members>>

\* PrimeBag(PrimeTable<V>* table): bags 1 and 2 share table 1, bag 3 is
\* bound to table 2
globalTable == (1 :> 1) @@ (2 :> 1) @@ (3 :> 2)

EmptyMap == [x \in {} |-> 0]

\* a default-constructed std::future: no shared state.  pending lists the
\* indices of the tasks that were launched for this member and whose result
\* no get() has taken yet, oldest first
NoFuture ==
    [valid |-> FALSE, state |-> "none", index |-> 0, result |-> 0,
     pending |-> << >>]

\* The record of a call: its name and arguments, what it returned (ret, ok,
\* status, vals), whether it read the sieve's vector of primes (reads, set
\* by the cursor's calls) and, for add, where the prime came from.  follows tells
\* that a remove undoes the add made by the call just before it; preHash
\* and preLength are the receiver's fields before that add.
NoCall ==
    [op |-> "none", tbl |-> 0, bag |-> 0, other |-> 0, val |-> "none",
     index |-> 0, ret |-> 0, ok |-> FALSE, follows |-> FALSE,
     path |-> "none",
     sizeBefore |-> 0, holesBefore |-> << >>,
     preHash |-> 0, preLength |-> 0, status |-> "ok", vals |-> << >>,
     reads |-> FALSE]

\* The fields of a PrimeBagIterator: primeBagCopy (hash and length),
\* primeIndex and end.  primeIndex is an unsigned int; the value it wraps to
\* below 0 is written -1.  status tells that a step of the cursor read
\* outside the prime list or while the list was being appended to, after
\* which the fields hold no defined value.
NoPos ==
    [copyHash |-> 1, copyLength |-> 0, primeIndex |-> 0, end |-> FALSE,
     status |-> "ok"]

\* A cursor that was not constructed yet.  ref is the bag refPrimeBag
\* refers to; snapHash, snapLength, snapMembers and snapVals are that bag
\* at construction; twin is the same cursor stepped against that bag as it
\* was at construction; trail names the constructor and the steps made
\* since, hist the fields after each of them; refSame tells that every
\* retreat so far found the bag as it was at construction.
NoIter ==
    [made |-> FALSE, ref |-> 0, cur |-> NoPos, twin |-> NoPos,
     snapHash |-> 1, snapLength |-> 0,
     snapMembers |-> [v \in Values |-> 0], snapVals |-> << >>,
     trail |-> << >>, hist |-> << >>, refSame |-> TRUE]

Init ==
    /\ sieveOfEratosthenes = [t \in Tables |-> NewSieve]
    /\ primeMap = [t \in Tables |-> EmptyMap]
    /\ reversePrimeMap = [t \in Tables |-> EmptyMap]
    /\ primeHoles = [t \in Tables |-> << >>]
    /\ nextPrime = [t \in Tables |-> NoFuture]
    /\ hash = [b \in Bags |-> 1]
    /\ length = [b \in Bags |-> 0]
    /\ members = [b \in Bags |-> [v \in Values |-> 0]]
    /\ iter = [c \in Cursors |-> NoIter]
    /\ answered = [i \in 0..MaxIndex |-> 0]
    /\ last = NoCall
    /\ calls = 0

\* the caller thread makes one more call
Call == calls < MaxCalls /\ calls' = calls + 1

\* ------------------------------------------------------------------------
\* SieveOfEratosthenes::getPrimeNumber called directly on table 1's sieve
\* ------------------------------------------------------------------------
GetPrimeNumber(index) ==
    LET s == getPrimeNumber(sieveOfEratosthenes[1], index)
        p == s.primes[index + 1]
    IN /\ sieveOfEratosthenes' = [sieveOfEratosthenes EXCEPT ![1] = s]
       /\ answered' = [answered EXCEPT ![index] = p]
       /\ last' = [NoCall EXCEPT !.op = "getPrimeNumber", !.tbl = 1,
                                 !.index = index, !.ret = p]
       /\ Call
       /\ UNCHANGED <<primeMap, reversePrimeMap, primeHoles, nextPrime,
                      hash, length, members, iter>>

NextSieve == \E index \in 0..MaxIndex : GetPrimeNumber(index)

SpecSieve == Init /\ [][NextSieve]_vars

\* C1: every getPrimeNumber(i), after any history of earlier calls, returns
\* the (i+1)-th prime of 2,3,5,7,11,..., and an index that was answered
\* before keeps its answer.
C1_NthPrime ==
    [][\A i \in 0..MaxIndex :
          /\ answered'[i] # 0 => answered'[i] = NthPrimeRef(i)
          /\ answered[i] # 0 => answered'[i] = answered[i]]_vars

\* an index beyond the first segments was asked after a smaller and after a
\* larger one, and an index was asked again
C1_Witness ==
    /\ answered[0] # 0
    /\ answered[MaxIndex] # 0
    /\ last.op = "getPrimeNumber" /\ last.index = 4 /\ last.ret = 11
    /\ Len(sieveOfEratosthenes[1].primes) > MaxIndex

\* ------------------------------------------------------------------------
\* PrimeTable
\* ------------------------------------------------------------------------
Size(m) == Cardinality(DOMAIN m)

\* unordered_map operator[] assignment
MapPut(m, k, x) == [y \in DOMAIN m \cup {k} |-> IF y = k THEN x ELSE m[y]]

\* unordered_map::erase(key)
MapErase(m, k) == [y \in DOMAIN m \ {k} |-> m[y]]

\* std::priority_queue<uint>::push: the queue is kept largest first
PushHoleBack(q, p) == Append(q, p)

PushHole(q, p) ==
    LET n == Cardinality({i \in 1..Len(q) : q[i] >= p})
    IN SubSeq(q, 1, n) \o <<p>> \o SubSeq(q, n + 1, Len(q))

\* PrimeTable::getPrime: 0 when the value has no prime
getPrime(t, value) ==
    IF value \in DOMAIN primeMap[t] THEN primeMap[t][value] ELSE 0

\* PrimeTable::containsPrime
containsPrime(t, prime) == prime \in DOMAIN reversePrimeMap[t]

\* PrimeTable::getPrimeNumbers
getPrimeNumbers(t) == sieveOfEratosthenes[t].primes

\* the index handed to std::async in add
PrefetchIndexSame(size) == size

PrefetchIndex(size) == size + 1

\* std::async(std::launch::async, &getPrimeNumber, &sieve, index)
Launch(index) ==
    [valid |-> TRUE, state |-> "start", index |-> index, result |-> 0,
     pending |-> <<index>>]

\* std::future::get() returns once the task has finished
ReadyAlways(f) == TRUE

Ready(f) == f.state = "done"

\* the future after get(): its shared state is released, and the task it
\* joined is no longer outstanding
Get(f) ==
    [NoFuture EXCEPT !.pending = SubSeq(f.pending, 1, Len(f.pending) - 1)]

\* nextPrime = std::async(...): the member now refers to the new task
MoveAssign(old, new) == [new EXCEPT !.pending = old.pending \o new.pending]

\* the std::async statement of add stands inside the branch that takes a
\* fresh prime, after the get() or the synchronous computation
LaunchesAfterAny(path) == TRUE

LaunchesAfter(path) == path \in {"prefetch", "sync"}

\* add returns without waiting unless it has to get() a future whose task
\* is still running
AddCanReturn(t, value) ==
    \/ value \in DOMAIN primeMap[t]
    \/ primeHoles[t] # << >>
    \/ ~nextPrime[t].valid
    \/ Ready(nextPrime[t])

\* PrimeTable::add: the prime returned and the table's fields afterwards
add(t, value) ==
    LET same == [sieve |-> sieveOfEratosthenes[t], holes |-> primeHoles[t],
                 next |-> nextPrime[t]]
        size == Size(primeMap[t])
        synced == getPrimeNumber(sieveOfEratosthenes[t], size)
        taken ==
            IF primeHoles[t] # << >>
            THEN [path |-> "hole", prime |-> Head(primeHoles[t]),
                  sieve |-> same.sieve, holes |-> Tail(primeHoles[t]),
                  got |-> same.next]
            ELSE IF nextPrime[t].valid
            THEN [path |-> "prefetch", prime |-> nextPrime[t].result,
                  sieve |-> same.sieve, holes |-> same.holes,
                  got |-> Get(nextPrime[t])]
            ELSE [path |-> "sync", prime |-> synced.primes[size + 1],
                  sieve |-> synced, holes |-> same.holes,
                  got |-> same.next]
        found ==
            [path |-> taken.path, prime |-> taken.prime,
             sieve |-> taken.sieve, holes |-> taken.holes,
             next |-> IF LaunchesAfter(taken.path)
                      THEN MoveAssign(taken.got, Launch(PrefetchIndex(size)))
                      ELSE taken.got]
    IN IF value \in DOMAIN primeMap[t]
       THEN [path |-> "existing", prime |-> primeMap[t][value],
             sieve |-> same.sieve, holes |-> same.holes, next |-> same.next,
             map |-> primeMap[t], rmap |-> reversePrimeMap[t]]
       ELSE [path |-> found.path, prime |-> found.prime,
             sieve |-> found.sieve, holes |-> found.holes,
             next |-> found.next,
             map |-> MapPut(primeMap[t], value, found.prime),
             rmap |-> MapPut(reversePrimeMap[t], found.prime, value)]

\* the assignments add makes to the table's fields
ApplyAdd(t, r) ==
    /\ sieveOfEratosthenes' = [sieveOfEratosthenes EXCEPT ![t] = r.sieve]
    /\ primeMap' = [primeMap EXCEPT ![t] = r.map]
    /\ reversePrimeMap' = [reversePrimeMap EXCEPT ![t] = r.rmap]
    /\ primeHoles' = [primeHoles EXCEPT ![t] = r.holes]
    /\ nextPrime' = [nextPrime EXCEPT ![t] = r.next]

TableAdd(t, value) ==
    /\ AddCanReturn(t, value)
    /\ LET r == add(t, value)
       IN /\ ApplyAdd(t, r)
          /\ last' = [NoCall EXCEPT !.op = "add", !.tbl = t, !.val = value,
                                    !.ret = r.prime, !.path = r.path,
                                    !.sizeBefore = Size(primeMap[t]),
                                    !.holesBefore = primeHoles[t]]
    /\ Call
    /\ UNCHANGED <<bagVars, answered, iter>>

\* PrimeTable::remove
TableRemove(t, value) ==
    /\ IF value \in DOMAIN primeMap[t]
       THEN LET prime == primeMap[t][value]
            IN /\ primeHoles' =
                      [primeHoles EXCEPT ![t] = PushHole(primeHoles[t], prime)]
               /\ primeMap' = [primeMap EXCEPT ![t] = MapErase(@, value)]
               /\ reversePrimeMap' =
                      [reversePrimeMap EXCEPT ![t] = MapErase(@, prime)]
               /\ last' = [NoCall EXCEPT !.op = "remove", !.tbl = t,
                                         !.val = value, !.ret = prime]
       ELSE /\ UNCHANGED <<primeHoles, primeMap, reversePrimeMap>>
            /\ last' = [NoCall EXCEPT !.op = "remove", !.tbl = t,
                                      !.val = value, !.ret = 0]
    /\ Call
    /\ UNCHANGED <<sieveOfEratosthenes, nextPrime, bagVars, answered, iter>>

\* what clear leaves in primeHoles: the statement "primeHoles;" has no effect
HolesAfterClearEmptied(holes) == << >>

HolesAfterClear(holes) == holes

\* PrimeTable::clear with a valid future: get() waits for the task, then the
\* maps are cleared
ClearJoined(t) ==
    /\ nextPrime[t].valid
    /\ Ready(nextPrime[t])
    /\ nextPrime' = [nextPrime EXCEPT ![t] = Get(@)]
    /\ primeMap' = [primeMap EXCEPT ![t] = EmptyMap]
    /\ reversePrimeMap' = [reversePrimeMap EXCEPT ![t] = EmptyMap]
    /\ primeHoles' = [primeHoles EXCEPT ![t] = HolesAfterClear(@)]
    /\ last' = [NoCall EXCEPT !.op = "clear", !.tbl = t,
                              !.holesBefore = primeHoles[t]]
    /\ Call
    /\ UNCHANGED <<sieveOfEratosthenes, bagVars, answered, iter>>

\* PrimeTable::clear with a future that has no shared state: get() on it is
\* undefined; the library either throws std::future_error (nothing is
\* cleared) or returns, and then clear goes on
ClearNoState(t) ==
    /\ ~nextPrime[t].valid
    /\ \/ /\ last' = [NoCall EXCEPT !.op = "clear", !.tbl = t,
                                    !.status = "future_error",
                                    !.holesBefore = primeHoles[t]]
          /\ UNCHANGED <<primeMap, reversePrimeMap, primeHoles>>
       \/ /\ primeMap' = [primeMap EXCEPT ![t] = EmptyMap]
          /\ reversePrimeMap' = [reversePrimeMap EXCEPT ![t] = EmptyMap]
          /\ primeHoles' = [primeHoles EXCEPT ![t] = HolesAfterClear(@)]
          /\ last' = [NoCall EXCEPT !.op = "clear", !.tbl = t,
                                    !.holesBefore = primeHoles[t]]
    /\ Call
    /\ UNCHANGED <<sieveOfEratosthenes, nextPrime, bagVars, answered, iter>>

TableClear(t) == ClearJoined(t) \/ ClearNoState(t)

\* ------------------------------------------------------------------------
\* The async task behind nextPrime: getPrimeNumber(index) on the table's
\* sieve, run by another thread
\* ------------------------------------------------------------------------
\* the task enters sieve(index + 1) and tests primes.size() < numPrimes
TaskStart(t) ==
    /\ nextPrime[t].state = "start"
    /\ LET s == sieveOfEratosthenes[t]
           index == nextPrime[t].index
       IN nextPrime' = [nextPrime EXCEPT ![t] =
              IF Len(s.primes) < index + 1
              THEN [@ EXCEPT !.state = "sieving"]
              ELSE [@ EXCEPT !.state = "done",
                             !.result = s.primes[index + 1]]]
    /\ UNCHANGED <<sieveOfEratosthenes, primeMap, reversePrimeMap,
                   primeHoles, bagVars, answered, iter, last, calls>>

\* the task sieves one segment, appending to primes, and returns
\* primes[index] once there are enough
TaskSegment(t) ==
    /\ nextPrime[t].state = "sieving"
    /\ LET s == SieveSegment(sieveOfEratosthenes[t])
           index == nextPrime[t].index
       IN /\ sieveOfEratosthenes' = [sieveOfEratosthenes EXCEPT ![t] = s]
          /\ nextPrime' = [nextPrime EXCEPT ![t] =
                 IF Len(s.primes) < index + 1
                 THEN @
                 ELSE [@ EXCEPT !.state = "done",
                                !.result = s.primes[index + 1]]]
    /\ UNCHANGED <<primeMap, reversePrimeMap, primeHoles, bagVars,
                   answered, iter, last, calls>>

NextTable ==
    \/ \E value \in Values : TableAdd(1, value)
    \/ \E value \in Values : TableRemove(1, value)
    \/ TableClear(1)
    \/ TaskStart(1)
    \/ TaskSegment(1)

SpecTable == Init /\ [][NextTable]_vars

\* ------------------------------------------------------------------------
\* PrimeBag
\* ------------------------------------------------------------------------
\* the negation dropped
containsHashNegated(h, otherHash) == h % otherHash # 0

\* containsHash: !(hash % otherHash)
containsHash(h, otherHash) == h % otherHash = 0

\* the registry test left out
SameTableAlways(a, b) == TRUE

\* bag.globalTable == globalTable
SameTable(a, b) == globalTable[a] = globalTable[b]

\* length-- forgotten
LengthAfterRemoveKept(len) == len

\* length-- in place of length -= bag.length
LengthAfterRemoveBagByOne(len, otherLength) == len - 1

\* length -= bag.length
LengthAfterRemoveBag(len, otherLength) == len - otherLength

\* length--
LengthAfterRemove(len) == len - 1

\* values inserted minus values removed, kept beside the bag
MembersAdd(m, value) == [m EXCEPT ![value] = @ + 1]

MembersRemove(m, value) == [m EXCEPT ![value] = IF @ > 0 THEN @ - 1 ELSE 0]

MembersUnion(m, n) == [v \in Values |-> m[v] + n[v]]

MembersDifference(m, n) ==
    [v \in Values |-> IF m[v] >= n[v] THEN m[v] - n[v] ELSE 0]

RECURSIVE SumOver(_, _)
SumOver(m, S) ==
    IF S = {} THEN 0
    ELSE LET v == CHOOSE x \in S : TRUE IN m[v] + SumOver(m, S \ {v})

\* number of elements of a multiset of values
Count(m) == SumOver(m, Values)

\* PrimeBag::add(const V&); the caller stops adding at MaxLen elements
BagAdd(b, value) ==
    LET t == globalTable[b]
        r == add(t, value)
    IN /\ length[b] < MaxLen
       /\ Count(members[b]) < MaxLen
       /\ AddCanReturn(t, value)
       /\ ApplyAdd(t, r)
       /\ hash' = [hash EXCEPT ![b] = @ * r.prime]
       /\ length' = [length EXCEPT ![b] = @ + 1]
       /\ members' = [members EXCEPT ![b] = MembersAdd(@, value)]
       /\ last' = [NoCall EXCEPT !.op = "BagAdd", !.bag = b, !.val = value,
                                 !.preHash = hash[b],
                                 !.preLength = length[b]]
       /\ Call
       /\ UNCHANGED <<answered, iter>>

\* PrimeBag::add(const PrimeBag&)
BagAddBag(a, b) ==
    /\ length[a] + length[b] <= MaxLen
    /\ Count(members[a]) + Count(members[b]) <= MaxLen
    /\ IF SameTable(a, b)
       THEN /\ hash' = [hash EXCEPT ![a] = hash[a] * hash[b]]
            /\ length' = [length EXCEPT ![a] = length[a] + length[b]]
            /\ members' =
                  [members EXCEPT ![a] = MembersUnion(members[a], members[b])]
       ELSE UNCHANGED <<hash, length, members>>
    /\ last' = [NoCall EXCEPT !.op = "BagAddBag",
                              !.bag = a, !.other = b, !.preHash = hash[a],
                              !.preLength = length[a]]
    /\ Call
    /\ UNCHANGED <<tableVars, answered, iter>>

\* PrimeBag::remove(const PrimeBag&)
BagRemoveBag(a, b) ==
    LET removed == /\ SameTable(a, b)
                   /\ length[b] <= length[a]
                   /\ containsHash(hash[a], hash[b])
        follows == /\ last.op = "BagAddBag"
                   /\ last.bag = a
                   /\ last.other = b
    IN /\ IF removed
          THEN /\ hash' = [hash EXCEPT ![a] = hash[a] \div hash[b]]
               /\ length' = [length EXCEPT ![a] =
                                LengthAfterRemoveBag(length[a], length[b])]
               /\ members' = [members EXCEPT ![a] =
                                 MembersDifference(members[a], members[b])]
          ELSE UNCHANGED <<hash, length, members>>
       /\ last' = [NoCall EXCEPT
                      !.op = "BagRemoveBag", !.bag = a, !.other = b,
                      !.ok = removed, !.follows = follows,
                      !.preHash = IF follows THEN last.preHash ELSE 0,
                      !.preLength = IF follows THEN last.preLength ELSE 0]
       /\ Call
    /\ UNCHANGED <<tableVars, answered, iter>>

\* PrimeBag::remove(const V&)
BagRemove(b, value) ==
    LET prime == getPrime(globalTable[b], value)
        removed == prime # 0 /\ containsHash(hash[b], prime)
        follows == /\ last.op = "BagAdd"
                   /\ last.bag = b
                   /\ last.val = value
    IN /\ IF removed
          THEN /\ hash' = [hash EXCEPT ![b] = @ \div prime]
               /\ length' = [length EXCEPT ![b] = LengthAfterRemove(@)]
               /\ members' = [members EXCEPT ![b] = MembersRemove(@, value)]
          ELSE UNCHANGED <<hash, length, members>>
       /\ last' = [NoCall EXCEPT
                      !.op = "BagRemove", !.bag = b, !.val = value,
                      !.ok = removed, !.follows = follows,
                      !.preHash = IF follows THEN last.preHash ELSE 0,
                      !.preLength = IF follows THEN last.preLength ELSE 0]
       /\ Call
    /\ UNCHANGED <<tableVars, answered, iter>>

\* PrimeBag::clear
BagClear(b) ==
    /\ hash' = [hash EXCEPT ![b] = 1]
    /\ length' = [length EXCEPT ![b] = 0]
    /\ members' = [members EXCEPT ![b] = [v \in Values |-> 0]]
    /\ last' = [NoCall EXCEPT !.op = "BagClear", !.bag = b]
    /\ Call
    /\ UNCHANGED <<tableVars, answered, iter>>

RECURSIVE DivideOut(_, _, _, _, _)
\* while (containsHash(hashCopy, bigPrime)) { divide; counter--; push_back }
DivideOut(hashCopy, prime, counter, result, value) ==
    IF containsHash(hashCopy, prime)
    THEN DivideOut(hashCopy \div prime, prime, counter - 1,
                   Append(result, value), value)
    ELSE [hashCopy |-> hashCopy, counter |-> counter, result |-> result]

RECURSIVE asVectorFrom(_, _, _, _, _, _)
\* the loop of asVector over the sieve's primes, from position k on;
\* getValue is reversePrimeMap.at(prime), which throws std::out_of_range
\* for a prime that has no value
asVectorFrom(t, ps, k, hashCopy, counter, result) ==
    IF k > Len(ps) THEN [status |-> "ok", vals |-> result]
    ELSE IF counter > 0
    THEN IF ~containsPrime(t, ps[k])
         THEN [status |-> "out_of_range", vals |-> << >>]
         ELSE LET d == DivideOut(hashCopy, ps[k], counter, result,
                                 reversePrimeMap[t][ps[k]])
              IN asVectorFrom(t, ps, k + 1, d.hashCopy, d.counter, d.result)
    ELSE [status |-> "ok", vals |-> result]

\* PrimeBag::asVector
asVector(b) ==
    asVectorFrom(globalTable[b], getPrimeNumbers(globalTable[b]), 1,
                 hash[b], length[b], << >>)

\* asVector called by the caller thread.  While the table's task is inside
\* sieve() it appends to the vector asVector iterates over: a data race,
\* after which the call may also do anything else ("data_race").
Decode(b) ==
    /\ \/ last' = [NoCall EXCEPT !.op = "asVector",
                                 !.bag = b, !.status = asVector(b).status,
                                 !.vals = asVector(b).vals]
       \/ /\ nextPrime[globalTable[b]].state = "sieving"
          /\ last' = [NoCall EXCEPT !.op = "asVector", !.bag = b,
                                    !.status = "data_race"]
    /\ Call
    /\ UNCHANGED <<tableVars, bagVars, answered, iter>>

\* bags 1 and 2 on table 1, and the table used directly as well
Next ==
    \/ \E b \in {1, 2}, value \in BagValues : BagAdd(b, value)
    \/ \E a, b \in {1, 2} : BagAddBag(a, b)
    \/ \E b \in {1, 2}, value \in BagValues : BagRemove(b, value)
    \/ \E a, b \in {1, 2} : BagRemoveBag(a, b)
    \/ \E b \in {1, 2} : BagClear(b)
    \/ \E b \in {1, 2} : Decode(b)
    \/ \E value \in BagValues : TableAdd(1, value)
    \/ \E value \in BagValues : TableRemove(1, value)
    \/ TableClear(1)
    \/ TaskStart(1)
    \/ TaskSegment(1)

Spec == Init /\ [][Next]_vars

\* bag 1 on table 1 and bag 3 on table 2
NextCross ==
    \/ \E b \in {1, 3}, value \in BagValues : BagAdd(b, value)
    \/ \E a, b \in {1, 3} : BagAddBag(a, b)
    \/ \E b \in {1, 3}, value \in BagValues : BagRemove(b, value)
    \/ \E a, b \in {1, 3} : BagRemoveBag(a, b)
    \/ \E t \in Tables : TaskStart(t)
    \/ \E t \in Tables : TaskSegment(t)

SpecCross == Init /\ [][NextCross]_vars

\* ------------------------------------------------------------------------
\* Claims about the PrimeTable
\* ------------------------------------------------------------------------
\* primeMap and reversePrimeMap of table t are inverse to each other
MutualInverse(t) ==
    /\ \A v \in DOMAIN primeMap[t] :
          /\ primeMap[t][v] \in DOMAIN reversePrimeMap[t]
          /\ reversePrimeMap[t][primeMap[t][v]] = v
    /\ \A p \in DOMAIN reversePrimeMap[t] :
          /\ reversePrimeMap[t][p] \in DOMAIN primeMap[t]
          /\ primeMap[t][reversePrimeMap[t][p]] = p

\* no prime is assigned to two values of table t
NoSharedPrime(t) ==
    \A v, w \in DOMAIN primeMap[t] :
        v # w => primeMap[t][v] # primeMap[t][w]

\* C2: after any sequence of add, remove and clear, primeMap and
\* reversePrimeMap are mutual inverses and no prime is assigned to two live
\* values.
C2_MutualInverses == MutualInverse(1) /\ NoSharedPrime(1)

\* C3: when clear has returned, primeMap, reversePrimeMap and primeHoles are
\* all empty, so an add after the clear cannot be handed a prime that was
\* freed before it.
C3_ClearEmptiesAll ==
    (last.op = "clear" /\ last.status = "ok")
        => /\ primeMap[last.tbl] = EmptyMap
           /\ reversePrimeMap[last.tbl] = EmptyMap
           /\ primeHoles[last.tbl] = << >>

\* C4: an add that assigns a prime to a new value while primeHoles is empty
\* returns the prime at index = number of values assigned before the call,
\* whether it came from the prefetch or from the synchronous sieve call.
C4_FreshPrimeIndex ==
    (/\ last.op = "add"
     /\ last.path # "existing"
     /\ last.holesBefore = << >>)
        => /\ last.ret = NthPrimeRef(last.sizeBefore)
           /\ last.ret =
                 sieveOfEratosthenes[last.tbl].primes[last.sizeBefore + 1]

\* the third value got its prime from a prefetch the task had to sieve for
C4_Witness ==
    /\ last.op = "add"
    /\ last.path = "prefetch"
    /\ last.holesBefore = << >>
    /\ last.sizeBefore = 2
    /\ last.ret = 5

\* ------------------------------------------------------------------------
\* Claims about the PrimeBag
\* ------------------------------------------------------------------------
RECURSIVE Pow(_, _)
Pow(x, n) == IF n = 0 THEN 1 ELSE x * Pow(x, n - 1)

RECURSIVE ProductOver(_, _, _)
\* the product over the values v of S of prime(v)^m[v] in table t
ProductOver(t, m, S) ==
    IF S = {} THEN 1
    ELSE LET v == CHOOSE x \in S : TRUE
         IN Pow(getPrime(t, v), m[v]) * ProductOver(t, m, S \ {v})

\* the encoding a multiset of values has in table t
EncodingOf(t, m) == ProductOver(t, m, Values)

\* the bag's hash and length are those of the values it was given
BagMatchesMembers(b) ==
    LET t == globalTable[b]
    IN /\ \A v \in Values : members[b][v] > 0 => getPrime(t, v) # 0
       /\ hash[b] = EncodingOf(t, members[b])
       /\ length[b] = Count(members[b])
       /\ hash[b] >= 1
       /\ \A v \in Values :
             (members[b][v] = 0 /\ getPrime(t, v) # 0)
                 => hash[b] % getPrime(t, v) # 0

\* C5: however bag and registry calls interleave, each bag's hash is the
\* product of prime(v)^multiplicity(v) over its members, its length is the
\* sum of the multiplicities, the hash is >= 1 and no prime assigned to a
\* non-member divides it.
C5_BagEncoding == \A b \in {1, 2} : BagMatchesMembers(b)

\* C6: remove(v) called right after add(v) on the same bag returns true and
\* leaves the bag with the hash and length it had before the add.
C6_AddRemoveValue ==
    (last.op = "BagRemove" /\ last.follows)
        => /\ last.ok
           /\ hash[last.bag] = last.preHash
           /\ length[last.bag] = last.preLength

\* a non-empty bag, on a table whose primes were recycled, got a recycled
\* prime multiplied in and divided out again
C6_Witness ==
    /\ last.op = "BagRemove" /\ last.follows /\ last.ok
    /\ last.preHash > 1
    /\ hash[last.bag] = last.preHash
    /\ primeHoles[globalTable[last.bag]] # << >>

SubMultiset(n, m) == \A v \in Values : n[v] <= m[v]

\* C8: A.remove(B) on one table returns true exactly when B is a
\* sub-multiset of A; then A becomes A minus B and its length drops by B's
\* length; otherwise A is unchanged; B is not modified.  (The hash of the
\* difference is compared where both hashes encoded their bags before the
\* call.)
C8_RemoveBag ==
    [][(calls' # calls /\ last'.op = "BagRemoveBag"
            /\ globalTable[last'.bag] = globalTable[last'.other])
        => LET a == last'.bag
               b == last'.other
               t == globalTable[a]
           IN /\ last'.ok <=> SubMultiset(members[b], members[a])
              /\ last'.ok =>
                    /\ (/\ hash[a] = EncodingOf(t, members[a])
                        /\ hash[b] = EncodingOf(t, members[b]))
                          => hash'[a] = EncodingOf(t,
                                MembersDifference(members[a], members[b]))
                    /\ length'[a] = length[a] - length[b]
              /\ ~last'.ok => (hash'[a] = hash[a] /\ length'[a] = length[a])
              /\ a # b => (hash'[b] = hash[b] /\ length'[b] = length[b])]_vars

\* vals holds every value as often as the bag was given it, by ascending
\* prime
DecodesMembers(b, vals) ==
    LET t == globalTable[b]
    IN /\ \A v \in Values :
             Cardinality({i \in 1..Len(vals) : vals[i] = v}) = members[b][v]
       /\ \A i, j \in 1..Len(vals) :
             i < j => getPrime(t, vals[i]) <= getPrime(t, vals[j])

\* C9: asVector completes and returns the values inserted minus the values
\* removed, each as often as its multiplicity, by ascending prime.
C9_Decode ==
    last.op = "asVector"
        => /\ last.status = "ok"
           /\ DecodesMembers(last.bag, last.vals)

\* C10: between bags of different tables, add(bag) and remove(bag) change
\* neither bag nor either table, and remove returns false.
C10_CrossTable ==
    [][(/\ calls' # calls
        /\ last'.op \in {"BagAddBag", "BagRemoveBag"}
        /\ globalTable[last'.bag] # globalTable[last'.other])
        => /\ UNCHANGED <<hash, length, tableVars>>
           /\ last'.op = "BagRemoveBag" => ~last'.ok]_vars

\* remove(bag) refused a bag of another table whose hash divides the
\* receiver's
C10_Witness ==
    /\ last.op = "BagRemoveBag"
    /\ globalTable[last.bag] # globalTable[last.other]
    /\ ~last.ok
    /\ hash[last.other] > 1
    /\ hash[last.bag] % hash[last.other] = 0

\* ------------------------------------------------------------------------
\* The prefetch future of a table
\* ------------------------------------------------------------------------
\* C13: after any sequence of add, remove and clear on a table, at most one
\* prefetch task is launched and not yet consumed, it is the one the future
\* refers to, and so a prefetch never starts before the one requested
\* before it has been consumed.
C13_OnePrefetch ==
    \A t \in Tables :
        LET f == nextPrime[t]
        IN /\ Len(f.pending) <= 1
           /\ f.valid => f.pending = <<f.index>>
           /\ ~f.valid => f.pending = << >>

\* an add consumed the prefetch of index 1 and started the one of index 2,
\* which is running
C13_Witness ==
    /\ last.op = "add" /\ last.path = "prefetch" /\ last.sizeBefore = 1
    /\ nextPrime[1].pending = <<2>>
    /\ nextPrime[1].state = "sieving"

\* C14: a clear that resets the maps does so only when the task started
\* before it has finished, and leaves no task behind: nothing is running or
\* pending once the maps are empty.
C14_ClearJoins ==
    [][\A t \in Tables :
          (/\ calls' # calls
           /\ last'.op = "clear" /\ last'.tbl = t /\ last'.status = "ok")
          => /\ nextPrime[t].state \notin {"start", "sieving"}
             /\ nextPrime'[t].state = "none"
             /\ nextPrime'[t].pending = << >>
             /\ primeMap'[t] = EmptyMap
             /\ reversePrimeMap'[t] = EmptyMap]_vars

\* clear returned after joining a prefetch that had to sieve
C14_Witness ==
    /\ last.op = "clear" /\ last.status = "ok"
    /\ ~nextPrime[1].valid
    /\ primeMap[1] = EmptyMap
    /\ Len(sieveOfEratosthenes[1].primes) > 2

\* the largest element of a non-empty sequence
MaxOf(q) == CHOOSE x \in {q[i] : i \in 1..Len(q)} :
                \A i \in 1..Len(q) : q[i] <= x

\* how often p occurs in q
Occurrences(q, p) == Cardinality({i \in 1..Len(q) : q[i] = p})

\* C17: add of a value that has no prime, with a non-empty hole pool, hands
\* out the largest hole, removes one occurrence of it from the pool and
\* leaves the future and the sieve alone; with an empty pool the prime is a
\* fresh one.
C17_LargestHole ==
    [][\A t \in Tables :
          (/\ calls' # calls
           /\ last'.op = "add" /\ last'.tbl = t
           /\ last'.val \notin DOMAIN primeMap[t])
          => IF primeHoles[t] # << >>
             THEN /\ last'.ret = MaxOf(primeHoles[t])
                  /\ Len(primeHoles'[t]) = Len(primeHoles[t]) - 1
                  /\ \A p \in 1..RefLimit :
                        Occurrences(primeHoles'[t], p) =
                            Occurrences(primeHoles[t], p)
                            - (IF p = last'.ret THEN 1 ELSE 0)
                  /\ nextPrime'[t] = nextPrime[t]
                  /\ sieveOfEratosthenes'[t] = sieveOfEratosthenes[t]
                  /\ primeMap'[t][last'.val] = last'.ret
             ELSE /\ last'.path \in {"prefetch", "sync"}
                  /\ primeHoles'[t] = << >>
                  /\ primeMap'[t][last'.val] = last'.ret]_vars

\* the larger of two holes was handed out while a prefetch was pending
C17_Witness ==
    /\ last.op = "add" /\ last.path = "hole"
    /\ Len(last.holesBefore) = 2
    /\ last.holesBefore[1] # last.holesBefore[2]
    /\ last.ret = 3
    /\ primeHoles[1] = <<2>>
    /\ nextPrime[1].valid

\* C19: clear returns normally whatever the state of the table, also when
\* no prefetch is outstanding.
C19_ClearCompletes == last.op = "clear" => last.status = "ok"

\* ------------------------------------------------------------------------
\* PrimeBagIterator
\* ------------------------------------------------------------------------
\* primes[primeIndex] is an element of the vector
InList(ps, primeIndex) == primeIndex >= 0 /\ primeIndex < Len(ps)

\* PrimeBagIterator::getPrimeAtTableIndex, for an index inside the vector
getPrimeAtTableIndex(ps, primeIndex) == ps[primeIndex + 1]

RECURSIVE getNextPrimeFactor(_, _, _)
\* PrimeBagIterator::getNextPrimeFactor: the index the loop stops at, or
\* the index outside the vector at which it reads
getNextPrimeFactor(ps, copyHash, primeIndex) ==
    IF ~InList(ps, primeIndex) THEN primeIndex
    ELSE IF containsHash(copyHash, getPrimeAtTableIndex(ps, primeIndex))
    THEN primeIndex
    ELSE getNextPrimeFactor(ps, copyHash, primeIndex + 1)

RECURSIVE getPreviousPrimeFactor(_, _, _, _)
\* PrimeBagIterator::getPreviousPrimeFactor: the index the loop stops at,
\* or the index outside the vector at which it reads (-1 is the unsigned
\* index that 0 wraps to)
getPreviousPrimeFactor(ps, refHash, copyHash, primeIndex) ==
    IF ~InList(ps, primeIndex) THEN primeIndex
    ELSE IF containsHash(refHash,
                         copyHash * getPrimeAtTableIndex(ps, primeIndex))
    THEN primeIndex
    ELSE getPreviousPrimeFactor(ps, refHash, copyHash, primeIndex - 1)

\* PrimeBagIterator::operator++
advance(it, ps) ==
    IF it.end THEN it
    ELSE IF it.copyLength > 0
    THEN LET i == getNextPrimeFactor(ps, it.copyHash, it.primeIndex)
         IN IF InList(ps, i)
            THEN [it EXCEPT
                     !.copyHash = @ \div getPrimeAtTableIndex(ps, i),
                     !.copyLength = @ - 1, !.primeIndex = i]
            ELSE [it EXCEPT !.primeIndex = i, !.status = "out_of_bounds"]
    ELSE [it EXCEPT !.end = TRUE]

\* primeBagCopy.length < refPrimeBag.length - 1 in unsigned arithmetic: for
\* a length of 0 the right-hand side wraps to the largest unsigned int
RetreatTaken(copyLength, refLength) ==
    IF refLength = 0 THEN TRUE ELSE copyLength < refLength - 1

\* PrimeBagIterator::operator--; refHash and refLength are the fields of
\* the bag refPrimeBag refers to
retreat(it, ps, refHash, refLength) ==
    IF ~InList(ps, it.primeIndex) THEN [it EXCEPT !.status = "out_of_bounds"]
    ELSE IF ~RetreatTaken(it.copyLength, refLength) THEN it
    ELSE LET prime == getPrimeAtTableIndex(ps, it.primeIndex)
             moved == IF it.end
                      THEN [it EXCEPT !.end = FALSE]
                      ELSE [it EXCEPT !.copyHash = @ * prime,
                                      !.copyLength = @ + 1]
             i == getPreviousPrimeFactor(ps, refHash, moved.copyHash,
                                         moved.primeIndex)
         IN IF InList(ps, i)
            THEN [moved EXCEPT !.primeIndex = i]
            ELSE [moved EXCEPT !.primeIndex = i, !.status = "out_of_bounds"]

\* PrimeBagIterator::PrimeBagIterator(bag, isEnd)
construct(bagHash, bagLength, isEnd, ps) ==
    IF bagLength = 0 \/ isEnd
    THEN [NoPos EXCEPT !.end = TRUE, !.primeIndex = Len(ps) - 1]
    ELSE advance([NoPos EXCEPT !.copyHash = bagHash,
                               !.copyLength = bagLength], ps)

\* PrimeBagIterator::operator*: the value, or the exception thrown
deref(it, ps, t) ==
    IF it.end THEN [status |-> "out_of_range", val |-> "none"]
    ELSE IF ~InList(ps, it.primeIndex)
    THEN [status |-> "out_of_bounds", val |-> "none"]
    ELSE IF containsPrime(t, getPrimeAtTableIndex(ps, it.primeIndex))
    THEN [status |-> "ok",
          val |-> reversePrimeMap[t][getPrimeAtTableIndex(ps,
                                                          it.primeIndex)]]
    ELSE [status |-> "out_of_range", val |-> "none"]

\* PrimeBagIterator::operator== for two cursors of bags on the same table
equals(it, other) ==
    /\ it.end = other.end
    /\ it.copyLength = other.copyLength
    /\ it.copyHash = other.copyHash

\* PrimeBagIterator::operator<
less(it, other) == other.copyLength < it.copyLength

\* PrimeBagIterator::operator>
greater(it, other) == other.copyLength > it.copyLength

RECURSIVE Repeat(_, _)
Repeat(x, n) == IF n <= 0 THEN << >> ELSE <<x>> \o Repeat(x, n - 1)

RECURSIVE ValsFrom(_, _, _, _)
\* the members mem in ascending order of their primes, each as often as
\* it is held
ValsFrom(t, mem, ps, k) ==
    IF k > Len(ps) THEN << >>
    ELSE (IF containsPrime(t, ps[k])
          THEN Repeat(reversePrimeMap[t][ps[k]],
                      mem[reversePrimeMap[t][ps[k]]])
          ELSE << >>) \o ValsFrom(t, mem, ps, k + 1)

\* a step of the cursor of bag b that reads the vector of primes while the
\* table's task appends to it is a data race: the step may also leave the
\* cursor in no defined state
Racing(b) == nextPrime[globalTable[b]].state = "sieving"

RacedPos == [NoPos EXCEPT !.status = "data_race"]

\* PrimeBag::begin and PrimeBag::end: cursor c is constructed over bag b
Construct(c, b, isEnd) ==
    /\ \E pos \in {construct(hash[b], length[b], isEnd,
                             getPrimeNumbers(globalTable[b]))}
                  \cup (IF Racing(b) THEN {RacedPos} ELSE {}) :
          iter' = [iter EXCEPT ![c] =
              [made |-> TRUE, ref |-> b, cur |-> pos, twin |-> pos,
               snapHash |-> hash[b], snapLength |-> length[b],
               snapMembers |-> members[b],
               snapVals |-> ValsFrom(globalTable[b], members[b],
                                     getPrimeNumbers(globalTable[b]), 1),
               trail |-> <<IF isEnd THEN "end" ELSE "begin">>,
               hist |-> <<pos>>, refSame |-> TRUE]]
    /\ last' = [NoCall EXCEPT !.op = IF isEnd THEN "end" ELSE "begin",
                              !.bag = b, !.index = c, !.reads = TRUE]
    /\ Call
    /\ UNCHANGED <<tableVars, bagVars, answered>>

Begin(c, b) == Construct(c, b, FALSE)

End(c, b) == Construct(c, b, TRUE)

\* the cursor after a step: its fields, the twin's fields, the history
Stepped(c, name, pos, twinPos) ==
    [iter EXCEPT ![c].cur = pos, ![c].twin = twinPos,
                 ![c].trail = Append(@, name), ![c].hist = Append(@, pos)]

\* ++c by the caller thread
Advance(c) ==
    LET it == iter[c]
        ps == getPrimeNumbers(globalTable[it.ref])
        readsList == ~it.cur.end /\ it.cur.copyLength > 0
    IN /\ it.made /\ it.cur.status = "ok"
       /\ \/ iter' = Stepped(c, "++", advance(it.cur, ps),
                             advance(it.twin, ps))
          \/ /\ readsList /\ Racing(it.ref)
             /\ iter' = Stepped(c, "++", RacedPos, RacedPos)
       /\ last' = [NoCall EXCEPT !.op = "++", !.bag = it.ref, !.index = c,
                                 !.reads = readsList]
       /\ Call
       /\ UNCHANGED <<tableVars, bagVars, answered>>

\* --c by the caller thread: the cursor reads the bag it refers to as the
\* bag is now; the twin reads it as it was at construction
Retreat(c) ==
    LET it == iter[c]
        ps == getPrimeNumbers(globalTable[it.ref])
    IN /\ it.made /\ it.cur.status = "ok"
       /\ \E stepped \in
              {Stepped(c, "--",
                       retreat(it.cur, ps, hash[it.ref], length[it.ref]),
                       retreat(it.twin, ps, it.snapHash, it.snapLength))}
              \cup (IF Racing(it.ref)
                    THEN {Stepped(c, "--", RacedPos, RacedPos)} ELSE {}) :
             iter' = [stepped EXCEPT ![c].refSame =
                         /\ @
                         /\ hash[it.ref] = it.snapHash
                         /\ length[it.ref] = it.snapLength]
       /\ last' = [NoCall EXCEPT !.op = "--", !.bag = it.ref, !.index = c,
                                 !.reads = TRUE]
       /\ Call
       /\ UNCHANGED <<tableVars, bagVars, answered>>

\* *c by the caller thread
Deref(c) ==
    LET it == iter[c]
        t == globalTable[it.ref]
        d == deref(it.cur, getPrimeNumbers(t), t)
    IN /\ it.made /\ it.cur.status = "ok"
       /\ \/ last' = [NoCall EXCEPT !.op = "deref", !.bag = it.ref,
                                    !.index = c, !.val = d.val,
                                    !.status = d.status,
                                    !.reads = ~it.cur.end]
          \/ /\ ~it.cur.end /\ Racing(it.ref)
             /\ last' = [NoCall EXCEPT !.op = "deref", !.bag = it.ref,
                                       !.index = c, !.status = "data_race",
                                       !.reads = TRUE]
       /\ Call
       /\ UNCHANGED <<tableVars, bagVars, answered, iter>>

\* bag 1 on table 1 with two cursors over it, the second one only moving
\* forward, and the table's remove
NextCursor ==
    \/ \E value \in BagValues : BagAdd(1, value)
    \/ \E value \in BagValues : BagRemove(1, value)
    \/ BagClear(1)
    \/ \E value \in BagValues : TableRemove(1, value)
    \/ Decode(1)
    \/ \E c \in Cursors : Begin(c, 1)
    \/ End(1, 1)
    \/ \E c \in Cursors : Advance(c)
    \/ Retreat(1)
    \/ Deref(1)
    \/ TaskStart(1)
    \/ TaskSegment(1)

SpecCursor == Init /\ [][NextCursor]_vars

\* what a caller can observe of a cursor's fields: the terminal flag, what
\* dereferencing yields, whether a step left it undefined
Observed(c, pos) ==
    [end |-> pos.end, status |-> pos.status,
     value |-> IF pos.status = "ok"
               THEN deref(pos, getPrimeNumbers(globalTable[iter[c].ref]),
                          globalTable[iter[c].ref])
               ELSE [status |-> pos.status, val |-> "none"]]

\* C11: whatever add, remove and clear do to the source bag after a cursor
\* was constructed, the cursor shows what it would show had the bag stayed
\* as it was (the terminal flag, the value dereferenced, equality with the
\* other cursor), and no step of a cursor changes a bag.
C11_SnapshotIsolation ==
    [][/\ \A c \in Cursors :
             iter'[c].made =>
                 /\ Observed(c, iter[c].cur)' = Observed(c, iter[c].twin)'
                 /\ \A d \in Cursors :
                       iter'[d].made =>
                           equals(iter'[c].cur, iter'[d].cur)
                               = equals(iter'[c].twin, iter'[d].twin)
       /\ (calls' # calls
           /\ last'.op \in {"begin", "end", "++", "--", "deref"})
          => UNCHANGED <<hash, length>>]_vars

\* C12: dereferencing a terminal cursor throws std::out_of_range and
\* changes nothing; dereferencing any other cursor returns a value that
\* was a member of the bag when the cursor was constructed.
C12_Dereference ==
    [][\A c \in Cursors :
          (calls' # calls /\ last'.op = "deref" /\ last'.index = c)
          => /\ UNCHANGED <<iter, tableVars, bagVars>>
             /\ IF iter[c].cur.end
                THEN last'.status = "out_of_range"
                ELSE /\ last'.status = "ok"
                     /\ last'.val \in Values
                     /\ iter[c].snapMembers[last'.val] > 0]_vars

\* the cursor was constructed by begin() and only advanced since
OnlyAdvanced(trail) ==
    /\ trail # << >>
    /\ trail[1] = "begin"
    /\ \A i \in 2..Len(trail) : trail[i] = "++"

\* C15: a cursor from begin() over a bag of size n that was advanced k
\* times is terminal exactly if k >= n; before that it dereferences to the
\* (k+1)-th of the bag's members in ascending prime order with
\* multiplicity; once terminal it equals end(), and a further advance
\* leaves it as it is.
C15_Traversal ==
    \A c \in Cursors :
        LET it == iter[c]
            t == globalTable[it.ref]
            ps == getPrimeNumbers(t)
            n == it.snapLength
            k == Len(it.trail) - 1
        IN (it.made /\ OnlyAdvanced(it.trail))
           => /\ it.cur.status = "ok"
              /\ it.cur.end <=> k >= n
              /\ Len(it.snapVals) = n
              /\ ~it.cur.end
                 => deref(it.cur, ps, t) =
                        [status |-> "ok", val |-> it.snapVals[k + 1]]
              /\ it.cur.end
                 => equals(it.cur,
                           construct(it.snapHash, it.snapLength, TRUE, ps))
              /\ k > n => it.cur = it.hist[k]

\* the largest prime of the list that divides h, 0 if none does
LargestFactor(ps, h) ==
    LET fs == {ps[i] : i \in {j \in 1..Len(ps) : containsHash(h, ps[j])}}
    IN IF fs = {} THEN 0 ELSE CHOOSE x \in fs : \A y \in fs : y <= x

\* C16: over a non-empty bag that is not changed meanwhile, for a cursor
\* brought forward from begin(), or built by end(): advancing it while it
\* is not terminal and then retreating gives a cursor equal to it, at the
\* same position; retreating from the terminal cursor gives the cursor at
\* the bag's last element; and the position never leaves the prime list.
C16_RetreatUndoesAdvance ==
    \A c \in Cursors :
        LET it == iter[c]
            ps == getPrimeNumbers(globalTable[it.ref])
            m == Len(it.trail)
        IN (/\ it.made /\ it.snapLength > 0
            /\ it.refSame
            /\ \A i \in 1..m : it.hist[i].status \notin {"data_race"})
           => /\ (/\ m >= 3
                  /\ it.trail[m] = "--" /\ it.trail[m - 1] = "++"
                  /\ OnlyAdvanced(SubSeq(it.trail, 1, m - 2))
                  /\ ~it.hist[m - 2].end)
                 => /\ equals(it.cur, it.hist[m - 2])
                    /\ it.cur.primeIndex = it.hist[m - 2].primeIndex
                    /\ it.cur.status = "ok"
              /\ (/\ m >= 2
                  /\ it.trail[m] = "--"
                  /\ \/ OnlyAdvanced(SubSeq(it.trail, 1, m - 1))
                     \/ SubSeq(it.trail, 1, m - 1) = <<"end">>
                  /\ it.hist[m - 1].end)
                 => /\ ~it.cur.end
                    /\ it.cur.status = "ok"
                    /\ it.cur.copyLength = 0 /\ it.cur.copyHash = 1
                    /\ InList(ps, it.cur.primeIndex)
                    /\ getPrimeAtTableIndex(ps, it.cur.primeIndex)
                           = LargestFactor(ps, it.snapHash)
              /\ \A i \in 1..m : InList(ps, it.hist[i].primeIndex)

\* C18: the caller never reads the sieve's vector of primes (asVector,
\* constructing, advancing, retreating or dereferencing a cursor) while
\* the table's task is inside sieve(), appending to that vector.
C18_NoReadWhileSieving ==
    [][(calls' # calls /\ (last'.op = "asVector" \/ last'.reads))
       => nextPrime[globalTable[last'.bag]].state # "sieving"]_vars

\* C20: of two cursors constructed by begin() over the same bag, the one
\* advanced further (the terminal one included) is greater, the other is
\* less, and they are not equal; and of any two cursors over the same bag
\* exactly one of <, == and > holds.
C20_OrderFollowsTraversal ==
    \A c, d \in Cursors :
        LET x == iter[c].cur
            y == iter[d].cur
        IN (/\ iter[c].made /\ iter[d].made
            /\ iter[c].ref = iter[d].ref
            /\ iter[c].snapHash = iter[d].snapHash
            /\ iter[c].snapLength = iter[d].snapLength
            /\ x.status = "ok" /\ y.status = "ok")
           => /\ (/\ OnlyAdvanced(iter[c].trail)
                  /\ OnlyAdvanced(iter[d].trail)
                  /\ ~x.end
                  /\ Len(iter[d].trail) > Len(iter[c].trail))
                 => (less(x, y) /\ greater(y, x) /\ ~equals(x, y))
              /\ Cardinality({r \in {"<", "==", ">"} :
                                 \/ r = "<" /\ less(x, y)
                                 \/ r = "==" /\ equals(x, y)
                                 \/ r = ">" /\ greater(x, y)}) = 1

====
